---- MODULE Spec2Model ----
(***************************************************************************)
(* Model of the Moab plate+ball simulator session (src/main.py): the       *)
(* TemplateSimulatorSession methods episode_start / episode_step and the   *)
(* event loop of main().                                                   *)
(*                                                                         *)
(* Units: every real quantity is an integer number of tenths (0.3 is 3,    *)
(* 1.0 is 10, 2.5 is 25).  An angle is an integer number of quarter turns  *)
(* (0 is 0 rad, 2 is pi rad), so that sin and cos are exact.               *)
(* An optional value (Python None or a value) is a sequence of length 0 or *)
(* 1; a dict is a function whose DOMAIN is its key set.                    *)
(***************************************************************************)
EXTENDS Integers, Sequences, FiniteSets, TLC

VARIABLES
  pc,          \* position of main(): "register", "loop" or "exited"
               \* (of a direct caller: "harness", "started", "stepped")
  sim,         \* the TemplateSimulatorSession: [simulator, sim_config]
  sequence_id, \* main(): sequence_id
  episode,     \* main(): episode
  iteration,   \* main(): iteration
  sessionLive, \* remote orchestrator: the registered session exists
  ncalls,      \* number of calls made so far to each collaborator operation
  nevents,     \* number of events returned by advance() so far
  lastEvent,   \* type of the event handled last ("" before the first)
  epi,         \* bookkeeping of the current EpisodeStart..EpisodeFinish run
  startRec,    \* the episode_start call of the last step, if it made one
  stepRec,     \* the episode_step call of the last step, if it made one
  lastAdvance, \* the last advance() call: what it carried and the sequence
               \* id of the event it returned (0 if it raised)
  caught,      \* the except clause of main() that ran ("" if none)
  phase,       \* the SessionPhase the events handled so far amount to
  tally        \* EpisodeStep events received since the last EpisodeFinish,
               \* and episode_start calls completed

vars == <<pc, sim, sequence_id, episode, iteration, sessionLive, ncalls,
          nevents, lastEvent, epi, startRec, stepRec, lastAdvance, caught,
          phase, tally>>

(***************************************************************************)
(* Bounds                                                                  *)
(***************************************************************************)
MaxEvents == 4

(***************************************************************************)
(* Values                                                                  *)
(***************************************************************************)
None == <<>>
Some(v) == <<v>>
EmptyMap == [k \in {} |-> 0]

Min(a, b) == IF a < b THEN a ELSE b
Max(a, b) == IF a > b THEN a ELSE b
Abs(a) == IF a < 0 THEN -a ELSE a

\* dict.get(key, default)
Get(d, key, default) == IF key \in DOMAIN d THEN d[key] ELSE default

\* number of occurrences of x in the sequence s
Count(x, s) == Cardinality({i \in DOMAIN s : s[i] = x})

CallNames == {"create", "advance", "delete", "reset", "update_plate",
              "set_initial_ball", "step", "C1.get_action", "C2.get_action"}

\* the call counters after the calls of the sequence cs were made
Called(n, cs) == [c \in CallNames |-> n[c] + Count(c, cs)]

(***************************************************************************)
(* Physics collaborator (sim/moab_model.py, MoabModel)                     *)
(***************************************************************************)
SimDefaults ==
  [roll |-> 0, pitch |-> 0, height_z |-> 0,
   time_delta |-> 1, jitter |-> 2, gravity |-> 98,
   plate_theta_vel_limit |-> 4, plate_theta_acc |-> 5,
   plate_theta_limit |-> 6, plate_z_limit |-> 8,
   ball_mass |-> 9, ball_radius |-> 11, ball_shell |-> 12,
   obstacle_radius |-> 13, obstacle_x |-> 14, obstacle_y |-> 15,
   target_x |-> 0, target_y |-> 0,
   ball_noise |-> 16, plate_noise |-> 17,
   ball |-> [x |-> 0, y |-> 0, z |-> 1],
   ball_vel |-> [x |-> 0, y |-> 0, z |-> 0],
   is_halted |-> FALSE]

\* MoabModel.reset(): every field back to its default
SimReset(s) == SimDefaults

\* MoabModel.update_plate(plate_reset): recomputes plate metrics, which are
\* no field of this model
UpdatePlate(s, plate_reset) == s

\* MoabModel.set_initial_ball(x, y, z)
SetInitialBall(s, x, y, z) == [s EXCEPT !.ball = [x |-> x, y |-> y, z |-> z]]

\* MoabModel.step(): one tick of the integrator; h is the halted condition
\* the integrator arrives at
SimStep(s, h) ==
  [s EXCEPT !.ball = [x |-> s.ball.x + s.ball_vel.x,
                      y |-> s.ball.y + s.ball_vel.y,
                      z |-> s.ball.z + s.ball_vel.z],
            !.is_halted = h]

\* MoabModel.halted()
SimHalted(s) == s.is_halted

(***************************************************************************)
(* pyrr                                                                    *)
(***************************************************************************)
ISqrt(n) == CHOOSE r \in 0..n : r * r <= n /\ (r + 1) * (r + 1) > n

Cos(k) == CASE k % 4 = 0 -> 1 [] k % 4 = 1 -> 0 [] k % 4 = 2 -> -1 [] OTHER -> 0
Sin(k) == CASE k % 4 = 0 -> 0 [] k % 4 = 1 -> 1 [] k % 4 = 2 -> 0 [] OTHER -> -1

\* vector.set_length(vec, len): vec / |vec| * len
set_length(vec, len) ==
  LET l == ISqrt(vec[1] * vec[1] + vec[2] * vec[2] + vec[3] * vec[3])
  IN  <<(vec[1] * len) \div l, (vec[2] * len) \div l, (vec[3] * len) \div l>>

\* matrix33.create_from_axis_rotation([0, 0, 1], theta)
create_from_axis_rotation_z(theta) ==
  << <<Cos(theta), Sin(theta), 0>>,
     <<-Sin(theta), Cos(theta), 0>>,
     <<0, 0, 1>> >>

\* matrix33.apply_to_vector(mat, vec).  The product is vec.mat or mat.vec
\* depending on the pyrr release: sense = 1 is vec.mat, sense = -1 mat.vec.
apply_to_vector(mat, vec, sense) ==
  IF sense = 1
  THEN [j \in 1..3 |-> vec[1] * mat[1][j] + vec[2] * mat[2][j] + vec[3] * mat[3][j]]
  ELSE [i \in 1..3 |-> mat[i][1] * vec[1] + mat[i][2] * vec[2] + mat[i][3] * vec[3]]

RotationSenses == {1, -1}

(***************************************************************************)
(* TemplateSimulatorSession                                                *)
(***************************************************************************)
\* __init__: MoabModel() and no sim_config yet
NewSession == [simulator |-> SimDefaults, sim_config |-> None]

\* get_state(): simulator.state(), the observation mapping
get_state(self) ==
  [ball_x |-> self.simulator.ball.x, ball_y |-> self.simulator.ball.y,
   ball_vel_x |-> self.simulator.ball_vel.x,
   ball_vel_y |-> self.simulator.ball_vel.y,
   roll |-> self.simulator.roll, pitch |-> self.simulator.pitch,
   target_x |-> self.simulator.target_x, target_y |-> self.simulator.target_y]

\* halted()
halted(self) == SimHalted(self.simulator)

\* a slip in line 62: the lower bound left out
clamp_NoLowerBound(val, min_val, max_val) == Min(max_val, val)

clamp(val, min_val, max_val) == Min(max_val, Max(min_val, val))

\* a slip in lines 72-84: at the target the velocity is zeroed
set_velocity_ZeroedAtTarget(s, speed, direction, sense) ==
  LET dx == s.target_x - s.ball.x
      dy == s.target_y - s.ball.y
  IN  IF (dx # 0) \/ (dy # 0)
      THEN LET vel0 == set_length(<<dx, dy, 0>>, speed)
               rot  == create_from_axis_rotation_z(direction)
               vel  == apply_to_vector(rot, vel0, sense)
           IN  [s EXCEPT !.ball_vel = [x |-> vel[1], y |-> vel[2], z |-> vel[3]]]
      ELSE [s EXCEPT !.ball_vel = [x |-> 0, y |-> 0, z |-> 0]]

\* a slip in lines 77-79: the rotation left out
set_velocity_NotRotated(s, speed, direction, sense) ==
  LET dx == s.target_x - s.ball.x
      dy == s.target_y - s.ball.y
  IN  IF (dx # 0) \/ (dy # 0)
      THEN LET vel == set_length(<<dx, dy, 0>>, speed)
           IN  [s EXCEPT !.ball_vel = [x |-> vel[1], y |-> vel[2], z |-> vel[3]]]
      ELSE s

\* lines 64-84
set_velocity_for_speed_and_direction(s, speed, direction, sense) ==
  LET dx == s.target_x - s.ball.x
      dy == s.target_y - s.ball.y
  IN  IF (dx # 0) \/ (dy # 0)
      THEN LET vel0 == set_length(<<dx, dy, 0>>, speed)
               rot  == create_from_axis_rotation_z(direction)
               vel  == apply_to_vector(rot, vel0, sense)
           IN  [s EXCEPT !.ball_vel = [x |-> vel[1], y |-> vel[2], z |-> vel[3]]]
      ELSE s

\* lines 102-105: initial control state
ApplyInitialControls(s, c) ==
  [s EXCEPT
     !.roll = Get(c, "initial_roll", @),
     !.pitch = Get(c, "initial_pitch", @),
     !.height_z = Get(c, "initial_height_z", @)]

\* lines 107-130: constants
ApplyConstants(s, c) ==
  [s EXCEPT
     !.time_delta = Get(c, "time_delta", @),
     !.jitter = Get(c, "jitter", @),
     !.gravity = Get(c, "gravity", @),
     !.plate_theta_vel_limit = Get(c, "plate_theta_vel_limit", @),
     !.plate_theta_acc = Get(c, "plate_theta_acc", @),
     !.plate_theta_limit = Get(c, "plate_theta_limit", @),
     !.plate_z_limit = Get(c, "plate_z_limit", @),
     !.ball_mass = Get(c, "ball_mass", @),
     !.ball_radius = Get(c, "ball_radius", @),
     !.ball_shell = Get(c, "ball_shell", @),
     !.obstacle_radius = Get(c, "obstacle_radius", @),
     !.obstacle_x = Get(c, "obstacle_x", @),
     !.obstacle_y = Get(c, "obstacle_y", @)]

\* a slip in lines 132-134: the two target keys exchanged
ApplyTarget_Exchanged(s, c) ==
  [s EXCEPT
     !.target_x = Get(c, "target_y", @),
     !.target_y = Get(c, "target_x", @)]

\* lines 132-134: target position
ApplyTarget(s, c) ==
  [s EXCEPT
     !.target_x = Get(c, "target_x", @),
     !.target_y = Get(c, "target_y", @)]

\* lines 136-138: observation config
ApplyNoise(s, c) ==
  [s EXCEPT
     !.ball_noise = Get(c, "ball_noise", @),
     !.plate_noise = Get(c, "plate_noise", @)]

\* lines 103-138: controls, constants, target and observation config
ApplyConfigFields(s, c) ==
  ApplyNoise(ApplyTarget(ApplyConstants(ApplyInitialControls(s, c), c), c), c)

\* lines 144-148
PlaceBall(s, c) ==
  SetInitialBall(s, Get(c, "initial_x", s.ball.x),
                    Get(c, "initial_y", s.ball.y),
                    Get(c, "initial_z", s.ball.z))

\* lines 151-153
ApplyVelocityComponents(s, c) ==
  [s EXCEPT !.ball_vel.x = Get(c, "initial_vel_x", @),
            !.ball_vel.y = Get(c, "initial_vel_y", @),
            !.ball_vel.z = Get(c, "initial_vel_z", @)]

\* a slip in lines 156-159: explicit components, when given, are kept
ApplySpeedDirection_ComponentsWin(s, c, sense) ==
  LET initial_speed == Get(c, "initial_speed", None)
      initial_direction == Get(c, "initial_direction", None)
  IN  IF initial_speed # None /\ initial_direction # None
         /\ "initial_vel_x" \notin DOMAIN c
      THEN set_velocity_for_speed_and_direction(
             s, initial_speed[1], initial_direction[1], sense)
      ELSE s

\* lines 156-159
ApplySpeedDirection(s, c, sense) ==
  LET initial_speed == Get(c, "initial_speed", None)
      initial_direction == Get(c, "initial_direction", None)
  IN  IF initial_speed # None /\ initial_direction # None
      THEN set_velocity_for_speed_and_direction(
             s, initial_speed[1], initial_direction[1], sense)
      ELSE s

\* an episode_start that sets the speed/direction velocity before the ball
\* is placed
EpisodeStartOrder_VelocityBeforeBall ==
  <<"reset", "fields", "update_plate", "speed_direction", "set_initial_ball",
    "velocity">>

\* lines 95-159: the operations of episode_start in the order of the code;
\* "fields" are the writes of lines 103-138, "velocity" those of lines
\* 151-153 and "speed_direction" the call of lines 156-159
EpisodeStartOrder ==
  <<"reset", "fields", "update_plate", "set_initial_ball", "velocity",
    "speed_direction">>

\* one operation of episode_start applied to the simulator
EpisodeStartOp(op, s, c, sense) ==
  CASE op = "reset" -> SimReset(s)
    [] op = "fields" -> ApplyConfigFields(s, c)
    [] op = "update_plate" -> UpdatePlate(s, TRUE)
    [] op = "set_initial_ball" -> PlaceBall(s, c)
    [] op = "velocity" -> ApplyVelocityComponents(s, c)
    [] op = "speed_direction" -> ApplySpeedDirection(s, c, sense)

RECURSIVE RunOps(_, _, _, _)
RunOps(ops, s, c, sense) ==
  IF ops = <<>> THEN s
  ELSE RunOps(Tail(ops), EpisodeStartOp(Head(ops), s, c, sense), c, sense)

\* the operations of episode_start up to and including op
OpsUpTo(op) ==
  LET i == CHOOSE k \in 1..Len(EpisodeStartOrder) : EpisodeStartOrder[k] = op
  IN  SubSeq(EpisodeStartOrder, 1, i)

\* the operations of episode_start that come before op
OpsBefore(op) == SubSeq(OpsUpTo(op), 1, Len(OpsUpTo(op)) - 1)

\* the operations episode_start runs, the one that raises being the last
EpisodeStartTrace(fail) ==
  IF fail = "none" THEN EpisodeStartOrder ELSE OpsUpTo(fail)

IsCall(op) == op \in CallNames

\* the collaborator calls of episode_start, in order, up to the one that raises
EpisodeStartCalls(fail) == SelectSeq(EpisodeStartTrace(fail), IsCall)

\* episode_start(config).  fail names the collaborator call that raises
\* ("none", "reset" or "set_initial_ball"); the result holds the session
\* afterwards, the collaborator calls made, the operations run, and the
\* intermediate values.
episode_start(self, config, sense, fail) ==
  LET c  == IF config = None THEN EmptyMap ELSE config[1]
      at(ops) == RunOps(ops, self.simulator, c, sense)
      s0 == at(OpsUpTo("reset"))
      s4 == at(OpsUpTo("velocity"))
      s5 == at(EpisodeStartOrder)
  IN  CASE fail = "reset" ->
             [self |-> [self EXCEPT !.simulator = at(OpsBefore(fail))],
              calls |-> EpisodeStartCalls(fail),
              trace |-> EpisodeStartTrace(fail), raised |-> TRUE,
              afterReset |-> self.simulator, velSet |-> self.simulator.ball_vel]
        [] fail = "set_initial_ball" ->
             [self |-> [simulator |-> at(OpsBefore(fail)),
                        sim_config |-> Some(c)],
              calls |-> EpisodeStartCalls(fail),
              trace |-> EpisodeStartTrace(fail), raised |-> TRUE,
              afterReset |-> s0, velSet |-> at(OpsBefore(fail)).ball_vel]
        [] OTHER ->
             [self |-> [simulator |-> s5, sim_config |-> Some(c)],
              calls |-> EpisodeStartCalls(fail),
              trace |-> EpisodeStartTrace(fail), raised |-> FALSE,
              afterReset |-> s0, velSet |-> s4.ball_vel]

\* a slip in line 171: the legacy key `command` also selects
SelectedService_Command(action) ==
  IF \/ "concept_index" \in DOMAIN action /\ action["concept_index"] = 1
     \/ "command" \in DOMAIN action /\ action["command"] = 1
  THEN "C1" ELSE "C2"

\* line 171: the selector
SelectedService(action) ==
  IF "concept_index" \in DOMAIN action /\ action["concept_index"] = 1
  THEN "C1" ELSE "C2"

MIN_CONTROL == -10
MAX_CONTROL == 10

Controls(s) == [roll |-> s.roll, pitch |-> s.pitch, height_z |-> s.height_z]

\* a slip in lines 176-182: an absent field falls back to 0
ApplyControls_ZeroDefault(s, action) ==
  [s EXCEPT
     !.roll = clamp(Get(action, "input_roll", 0), MIN_CONTROL, MAX_CONTROL),
     !.pitch = clamp(Get(action, "input_pitch", 0), MIN_CONTROL, MAX_CONTROL),
     !.height_z = clamp(Get(action, "input_height_z", 0), MIN_CONTROL, MAX_CONTROL)]

\* lines 176-182: the controls taken from the returned action
ApplyControls(s, action) ==
  [s EXCEPT
     !.roll = clamp(Get(action, "input_roll", @), MIN_CONTROL, MAX_CONTROL),
     !.pitch = clamp(Get(action, "input_pitch", @), MIN_CONTROL, MAX_CONTROL),
     !.height_z = clamp(Get(action, "input_height_z", @), MIN_CONTROL, MAX_CONTROL)]

\* a slip in lines 171-184: step() only reached on the first branch
EpisodeStepCalls_StepOnlyForC1(action, fail) ==
  IF SelectedService(action) = "C1"
  THEN IF fail = "get_action" THEN <<"C1.get_action">>
       ELSE <<"C1.get_action", "step">>
  ELSE <<"C2.get_action">>

\* the collaborator calls of episode_step, in order, up to the one that raises
EpisodeStepCalls(action, fail) ==
  LET get == IF SelectedService(action) = "C1"
             THEN "C1.get_action" ELSE "C2.get_action"
  IN  IF fail = "get_action" THEN <<get>> ELSE <<get, "step">>

\* an episode_step that takes a control the decision service left out from
\* the orchestrator's action
episode_step_OrchestratorFields(self, action, returned, h, fail) ==
  LET s1 == ApplyControls(self.simulator, returned @@ action)
      s2 == SimStep(s1, h)
  IN  CASE fail = "get_action" ->
             [self |-> self, calls |-> EpisodeStepCalls(action, fail),
              raised |-> TRUE, applied |-> None]
        [] fail = "step" ->
             [self |-> [self EXCEPT !.simulator = s1],
              calls |-> EpisodeStepCalls(action, fail),
              raised |-> TRUE, applied |-> Some(Controls(s1))]
        [] OTHER ->
             [self |-> [self EXCEPT !.simulator = s2],
              calls |-> EpisodeStepCalls(action, fail),
              raised |-> FALSE, applied |-> Some(Controls(s1))]

\* an episode_step that turns to the other decision service when the
\* selected one raises
episode_step_FallsBack(self, action, returned, h, fail) ==
  LET s1 == ApplyControls(self.simulator, returned)
      s2 == SimStep(s1, h)
      both == IF SelectedService(action) = "C1"
              THEN <<"C1.get_action", "C2.get_action", "step">>
              ELSE <<"C2.get_action", "C1.get_action", "step">>
  IN  CASE fail = "get_action" ->
             [self |-> [self EXCEPT !.simulator = s2], calls |-> both,
              raised |-> TRUE, applied |-> None]
        [] fail = "step" ->
             [self |-> [self EXCEPT !.simulator = s1],
              calls |-> EpisodeStepCalls(action, fail),
              raised |-> TRUE, applied |-> Some(Controls(s1))]
        [] OTHER ->
             [self |-> [self EXCEPT !.simulator = s2],
              calls |-> EpisodeStepCalls(action, fail),
              raised |-> FALSE, applied |-> Some(Controls(s1))]

\* an episode_step that resets the simulator as soon as a step halts it
episode_step_AutoReset(self, action, returned, h, fail) ==
  LET s1 == ApplyControls(self.simulator, returned)
      s2 == SimStep(s1, h)
  IN  CASE fail = "get_action" ->
             [self |-> self, calls |-> EpisodeStepCalls(action, fail),
              raised |-> TRUE, applied |-> None]
        [] fail = "step" ->
             [self |-> [self EXCEPT !.simulator = s1],
              calls |-> EpisodeStepCalls(action, fail),
              raised |-> TRUE, applied |-> Some(Controls(s1))]
        [] OTHER ->
             [self |-> [self EXCEPT !.simulator =
                          IF SimHalted(s2) THEN SimReset(s2) ELSE s2],
              calls |-> EpisodeStepCalls(action, fail) \o
                          (IF SimHalted(s2) THEN <<"reset">> ELSE <<>>),
              raised |-> FALSE, applied |-> Some(Controls(s1))]

\* episode_step(action).  returned is the action the selected decision
\* service returns, h the halted condition step() arrives at, fail the
\* collaborator call that raises ("none", "get_action" or "step").
episode_step(self, action, returned, h, fail) ==
  LET s1 == ApplyControls(self.simulator, returned)
      s2 == SimStep(s1, h)
  IN  CASE fail = "get_action" ->
             [self |-> self, calls |-> EpisodeStepCalls(action, fail),
              raised |-> TRUE, applied |-> None]
        [] fail = "step" ->
             [self |-> [self EXCEPT !.simulator = s1],
              calls |-> EpisodeStepCalls(action, fail),
              raised |-> TRUE, applied |-> Some(Controls(s1))]
        [] OTHER ->
             [self |-> [self EXCEPT !.simulator = s2],
              calls |-> EpisodeStepCalls(action, fail),
              raised |-> FALSE, applied |-> Some(Controls(s1))]

(***************************************************************************)
(* Inputs                                                                  *)
(***************************************************************************)
ScalarKeys ==
  {"initial_roll", "initial_pitch", "initial_height_z", "time_delta",
   "jitter", "gravity", "plate_theta_vel_limit", "plate_theta_acc",
   "plate_theta_limit", "plate_z_limit", "ball_mass", "ball_radius",
   "ball_shell", "obstacle_radius", "obstacle_x", "obstacle_y",
   "target_x", "target_y", "ball_noise", "plate_noise"}
BallKeys == {"initial_x", "initial_y", "initial_z"}
VelKeys == {"initial_vel_x", "initial_vel_y", "initial_vel_z"}

\* episode configs with one key
SingleKeyConfigs ==
  {k :> v : k \in ScalarKeys \cup BallKeys \cup VelKeys, v \in {25, -30}}

\* episode configs that place target and ball and set the velocity
TargetParts ==
  {EmptyMap, ("target_x" :> 100) @@ ("target_y" :> 0),
   ("target_x" :> 30) @@ ("target_y" :> 40)}
BallParts ==
  {EmptyMap, ("initial_x" :> 100) @@ ("initial_y" :> 0), "initial_x" :> 30}
VelParts ==
  {EmptyMap, "initial_vel_x" :> 7,
   ("initial_vel_x" :> 7) @@ ("initial_vel_y" :> -7) @@ ("initial_vel_z" :> 2)}
SpeedParts ==
  {EmptyMap, "initial_speed" :> None, "initial_speed" :> Some(50),
   "initial_speed" :> Some(0)}
DirectionParts ==
  {EmptyMap, "initial_direction" :> None} \cup
  {"initial_direction" :> Some(k) : k \in 0..3}
KinematicConfigs ==
  {t @@ b @@ v @@ sp @@ d :
     t \in TargetParts, b \in BallParts, v \in VelParts,
     sp \in SpeedParts, d \in DirectionParts}

StartConfigs ==
  {None} \cup {Some(c) : c \in SingleKeyConfigs \cup KinematicConfigs}

\* episode configs that only set the initial controls
ControlConfigs ==
  {None, Some("initial_roll" :> 25), Some("initial_pitch" :> -30),
   Some(("initial_height_z" :> 25) @@ ("initial_roll" :> 3))}

\* the configs the orchestrator sends in the event loop
LoopConfigs ==
  {None, Some(EmptyMap), Some("initial_roll" :> 25),
   Some(("target_x" :> 100) @@ ("initial_vel_x" :> 7) @@
        ("initial_speed" :> Some(50)) @@ ("initial_direction" :> Some(2)))}

\* actions the orchestrator sends with EpisodeStep
OrchActions ==
  {EmptyMap, "concept_index" :> 1, "concept_index" :> 2, "concept_index" :> 3,
   "command" :> 1, "command" :> 2,
   ("concept_index" :> 1) @@ ("input_roll" :> 3),
   ("concept_index" :> 2) @@ ("input_roll" :> 3) @@ ("input_pitch" :> 25)}
LoopActions == {"concept_index" :> 1, "concept_index" :> 2, "command" :> 1}

\* actions a decision service returns
InputKeys == {"input_roll", "input_pitch", "input_height_z"}
ControlValues == {-30, 3, 25}
ReturnedActions == UNION {[K -> ControlValues] : K \in SUBSET InputKeys}
LoopReturned ==
  {EmptyMap, "input_roll" :> 25, ("input_roll" :> 3) @@ ("input_pitch" :> -30)}

\* the sequence id the orchestrator gives the next event; the ids it hands
\* out need not be consecutive
NextSeqIds(id) == {id + 2}

(***************************************************************************)
(* Bookkeeping of the last calls                                           *)
(***************************************************************************)
NoStart ==
  [kind |-> "none", config |-> None, sense |-> 1,
   afterReset |-> SimDefaults, velSet |-> SimDefaults.ball_vel,
   final |-> SimDefaults, calls |-> <<>>, trace |-> <<>>]

StartRecord(config, sense, r) ==
  [kind |-> IF r.raised THEN "raised" ELSE "ok", config |-> config,
   sense |-> sense, afterReset |-> r.afterReset,
   velSet |-> r.velSet, final |-> r.self.simulator, calls |-> r.calls,
   trace |-> r.trace]

NoStep ==
  [kind |-> "none", action |-> EmptyMap, returned |-> EmptyMap,
   pre |-> Controls(SimDefaults), applied |-> None,
   post |-> Controls(SimDefaults), calls |-> <<>>]

StepRecord(action, returned, before, r) ==
  [kind |-> IF r.raised THEN "raised" ELSE "ok", action |-> action,
   returned |-> returned, pre |-> Controls(before), applied |-> r.applied,
   post |-> Controls(r.self.simulator), calls |-> r.calls]

NoEpisode == [phase |-> "none", n |-> 0, step0 |-> 0, reset0 |-> 0]

\* a SimulatorState that never reports the simulator as halted
Exchange_NeverHalted(seq, self, id) ==
  [sequence_id |-> seq, state |-> get_state(self), halted |-> FALSE,
   returned |-> id]

\* lines 294-301: the SimulatorState sent with advance(), and the sequence
\* id of the event that came back (0 if advance() raised)
Exchange(seq, self, id) ==
  [sequence_id |-> seq, state |-> get_state(self), halted |-> halted(self),
   returned |-> id]

NoAdvance ==
  [sequence_id |-> 0, state |-> get_state(NewSession), halted |-> FALSE,
   returned |-> 0]

NoTally == [steps |-> 0, starts |-> 0]

(***************************************************************************)
(* main()                                                                  *)
(***************************************************************************)
Init ==
  /\ pc = "register"
  /\ sim = NewSession
  /\ sequence_id = 0
  /\ episode = 0
  /\ iteration = 0
  /\ sessionLive = FALSE
  /\ ncalls = [c \in CallNames |-> 0]
  /\ nevents = 0
  /\ lastEvent = ""
  /\ epi = NoEpisode
  /\ startRec = NoStart
  /\ stepRec = NoStep
  /\ lastAdvance = NoAdvance
  /\ caught = ""
  /\ phase = "Unregistered"
  /\ tally = NoTally

\* lines 283-289
Register ==
  /\ pc = "register"
  /\ pc' = "loop"
  /\ sessionLive' = TRUE
  /\ ncalls' = Called(ncalls, <<"create">>)
  /\ sequence_id' = 1
  /\ episode' = 0
  /\ iteration' = 0
  /\ phase' = "Registered"
  /\ UNCHANGED <<sim, nevents, lastEvent, epi, startRec, stepRec, lastAdvance,
                 caught, tally>>

\* lines 327-340: both except clauses delete the remote session
ExceptCalls == <<"delete">>

\* line 319-324: the Unregister branch deletes the remote session and falls
\* through to the next iteration of while True
UnregisterNextPc == "loop"

\* advance() returns an event: the session is registered and the
\* orchestrator has an event left
CanAdvance == pc = "loop" /\ sessionLive /\ nevents < MaxEvents

\* an advance() whose caller counts the events itself instead of taking the
\* sequence id of the event
Received_CountsLocally(type, id) ==
  /\ id \in NextSeqIds(sequence_id)
  /\ lastAdvance' = Exchange(sequence_id, sim, id)
  /\ sequence_id' = sequence_id + 1
  /\ nevents' = nevents + 1
  /\ lastEvent' = type

\* lines 294-303
Received(type, id) ==
  /\ id \in NextSeqIds(sequence_id)
  /\ lastAdvance' = Exchange(sequence_id, sim, id)
  /\ sequence_id' = id
  /\ nevents' = nevents + 1
  /\ lastEvent' = type

\* an except clause that swallows the error and lets the loop go on
Leave_Retry ==
  /\ pc' = "loop"
  /\ sessionLive' = sessionLive

\* the loop is left through an except clause
Leave ==
  /\ pc' = "exited"
  /\ sessionLive' = FALSE

\* the SessionPhase after an event of the given type was handled
PhaseAfter(type) ==
  CASE type = "EpisodeStart" -> "EpisodeActive"
    [] type = "EpisodeFinish" ->
         IF phase = "EpisodeActive" THEN "EpisodeIdle" ELSE phase
    [] type = "Unregister" -> "Unregistered"
    [] OTHER -> phase

\* lines 306-308
EvIdle ==
  \E id \in NextSeqIds(sequence_id) :
    /\ CanAdvance
    /\ Received("Idle", id)
    /\ ncalls' = Called(ncalls, <<"advance">>)
    /\ epi' = NoEpisode
    /\ UNCHANGED <<caught, phase, tally>>
    /\ startRec' = NoStart /\ stepRec' = NoStep
    /\ UNCHANGED <<pc, sim, episode, iteration, sessionLive>>

\* an EpisodeStart branch that also starts the iteration count afresh
EvEpisodeStart_ResetsIteration ==
  \E config \in LoopConfigs, sense \in RotationSenses,
     id \in NextSeqIds(sequence_id) :
    LET r == episode_start(sim, config, sense, "none") IN
    /\ CanAdvance
    /\ Received("EpisodeStart", id)
    /\ sim' = r.self
    /\ episode' = episode + 1
    /\ iteration' = 0
    /\ ncalls' = Called(ncalls, <<"advance">> \o r.calls)
    /\ startRec' = StartRecord(config, sense, r)
    /\ epi' = [phase |-> "open", n |-> 0, step0 |-> ncalls["step"],
               reset0 |-> ncalls["reset"]]
    /\ stepRec' = NoStep
    /\ phase' = PhaseAfter("EpisodeStart")
    /\ tally' = [tally EXCEPT !.starts = @ + 1]
    /\ caught' = caught
    /\ UNCHANGED <<pc, sessionLive>>

\* lines 309-312
EvEpisodeStart ==
  \E config \in LoopConfigs, sense \in RotationSenses,
     id \in NextSeqIds(sequence_id) :
    LET r == episode_start(sim, config, sense, "none") IN
    /\ CanAdvance
    /\ Received("EpisodeStart", id)
    /\ sim' = r.self
    /\ episode' = episode + 1
    /\ ncalls' = Called(ncalls, <<"advance">> \o r.calls)
    /\ startRec' = StartRecord(config, sense, r)
    /\ epi' = [phase |-> "open", n |-> 0, step0 |-> ncalls["step"],
               reset0 |-> ncalls["reset"]]
    /\ stepRec' = NoStep
    /\ phase' = PhaseAfter("EpisodeStart")
    /\ tally' = [tally EXCEPT !.starts = @ + 1]
    /\ caught' = caught
    /\ UNCHANGED <<pc, iteration, sessionLive>>

\* lines 309-311 and 334-340: a collaborator call of episode_start raises
EvEpisodeStartRaises ==
  \E config \in LoopConfigs, sense \in RotationSenses,
     id \in NextSeqIds(sequence_id), fail \in {"reset", "set_initial_ball"} :
    LET r == episode_start(sim, config, sense, fail) IN
    /\ CanAdvance
    /\ Received("EpisodeStart", id)
    /\ sim' = r.self
    /\ ncalls' = Called(ncalls, <<"advance">> \o r.calls \o ExceptCalls)
    /\ startRec' = StartRecord(config, sense, r)
    /\ epi' = NoEpisode
    /\ Leave
    /\ stepRec' = NoStep
    /\ caught' = "Exception"
    /\ phase' = "Unregistered"
    /\ tally' = tally
    /\ UNCHANGED <<episode, iteration>>

\* lines 313-315
EvEpisodeStep ==
  \E action \in LoopActions, returned \in LoopReturned, h \in BOOLEAN,
     id \in NextSeqIds(sequence_id) :
    LET r == episode_step(sim, action, returned, h, "none") IN
    /\ CanAdvance
    /\ Received("EpisodeStep", id)
    /\ iteration' = iteration + 1
    /\ sim' = r.self
    /\ ncalls' = Called(ncalls, <<"advance">> \o r.calls)
    /\ stepRec' = StepRecord(action, returned, sim.simulator, r)
    /\ epi' = IF epi.phase = "open" THEN [epi EXCEPT !.n = @ + 1] ELSE NoEpisode
    /\ startRec' = NoStart
    /\ phase' = PhaseAfter("EpisodeStep")
    /\ tally' = [tally EXCEPT !.steps = @ + 1]
    /\ caught' = caught
    /\ UNCHANGED <<pc, episode, sessionLive>>

\* lines 313-315 and 334-340: get_action() or step() raises
EvEpisodeStepRaises ==
  \E action \in LoopActions, returned \in LoopReturned,
     id \in NextSeqIds(sequence_id), fail \in {"get_action", "step"} :
    LET r == episode_step(sim, action, returned, FALSE, fail) IN
    /\ CanAdvance
    /\ Received("EpisodeStep", id)
    /\ iteration' = iteration + 1
    /\ sim' = r.self
    /\ ncalls' = Called(ncalls, <<"advance">> \o r.calls \o ExceptCalls)
    /\ stepRec' = StepRecord(action, returned, sim.simulator, r)
    /\ epi' = NoEpisode
    /\ Leave
    /\ startRec' = NoStart
    /\ caught' = "Exception"
    /\ phase' = "Unregistered"
    /\ tally' = [tally EXCEPT !.steps = @ + 1]
    /\ UNCHANGED episode

\* lines 316-318
EvEpisodeFinish ==
  \E id \in NextSeqIds(sequence_id) :
    /\ CanAdvance
    /\ Received("EpisodeFinish", id)
    /\ iteration' = 0
    /\ ncalls' = Called(ncalls, <<"advance">>)
    /\ epi' = IF epi.phase = "open" THEN [epi EXCEPT !.phase = "closed"]
              ELSE NoEpisode
    /\ startRec' = NoStart /\ stepRec' = NoStep
    /\ phase' = PhaseAfter("EpisodeFinish")
    /\ tally' = [tally EXCEPT !.steps = 0]
    /\ caught' = caught
    /\ UNCHANGED <<pc, sim, episode, sessionLive>>

\* lines 319-324
EvUnregister ==
  \E id \in NextSeqIds(sequence_id) :
    /\ CanAdvance
    /\ Received("Unregister", id)
    /\ ncalls' = Called(ncalls, <<"advance", "delete">>)
    /\ sessionLive' = FALSE
    /\ pc' = UnregisterNextPc
    /\ epi' = NoEpisode
    /\ startRec' = NoStart /\ stepRec' = NoStep
    /\ phase' = PhaseAfter("Unregister")
    /\ UNCHANGED <<caught, tally>>
    /\ UNCHANGED <<sim, episode, iteration>>

\* an else branch that takes an unrecognized event for the end of the episode
EvOther_ClosesEpisode ==
  \E id \in NextSeqIds(sequence_id) :
    /\ CanAdvance
    /\ Received("Other", id)
    /\ ncalls' = Called(ncalls, <<"advance">>)
    /\ epi' = NoEpisode
    /\ iteration' = 0
    /\ UNCHANGED <<caught, phase, tally>>
    /\ startRec' = NoStart /\ stepRec' = NoStep
    /\ UNCHANGED <<pc, sim, episode, sessionLive>>

\* lines 325-326: an event of any other type
EvOther ==
  \E id \in NextSeqIds(sequence_id) :
    /\ CanAdvance
    /\ Received("Other", id)
    /\ ncalls' = Called(ncalls, <<"advance">>)
    /\ epi' = NoEpisode
    /\ UNCHANGED <<caught, phase, tally>>
    /\ startRec' = NoStart /\ stepRec' = NoStep
    /\ UNCHANGED <<pc, sim, episode, iteration, sessionLive>>

\* lines 297-301 and 334-340: advance() raises (a transport error, or the
\* session was deleted)
AdvanceRaises ==
  /\ pc = "loop"
  /\ ncalls' = Called(ncalls, <<"advance">> \o ExceptCalls)
  /\ epi' = NoEpisode
  /\ Leave
  /\ startRec' = NoStart /\ stepRec' = NoStep
  /\ lastAdvance' = Exchange(sequence_id, sim, 0)
  /\ caught' = "Exception"
  /\ phase' = "Unregistered"
  /\ tally' = tally
  /\ UNCHANGED <<sim, sequence_id, episode, iteration, nevents, lastEvent>>

\* lines 327-333: the user interrupts the loop
KeyboardInterrupt ==
  /\ pc = "loop"
  /\ ncalls' = Called(ncalls, ExceptCalls)
  /\ epi' = NoEpisode
  /\ Leave
  /\ startRec' = NoStart /\ stepRec' = NoStep
  /\ caught' = "KeyboardInterrupt"
  /\ phase' = "Unregistered"
  /\ UNCHANGED <<lastAdvance, tally>>
  /\ UNCHANGED <<sim, sequence_id, episode, iteration, nevents, lastEvent>>

Next ==
  \/ Register
  \/ EvIdle
  \/ EvEpisodeStart
  \/ EvEpisodeStartRaises
  \/ EvEpisodeStep
  \/ EvEpisodeStepRaises
  \/ EvEpisodeFinish
  \/ EvUnregister
  \/ EvOther
  \/ AdvanceRaises
  \/ KeyboardInterrupt

Spec == Init /\ [][Next]_vars

(***************************************************************************)
(* The session methods called directly (as test_random_policy does), with  *)
(* inputs drawn from wider sets than the event loop's                      *)
(***************************************************************************)
\* a session that has run an episode before: every field differs from its
\* default
UsedConfig ==
  [k \in ScalarKeys \cup BallKeys \cup VelKeys |-> 21] @@
  ("initial_speed" :> None) @@ ("initial_direction" :> None)
UsedSession ==
  episode_step(episode_start(NewSession, Some(UsedConfig), 1, "none").self,
               "concept_index" :> 1, "input_roll" :> 3, TRUE, "none").self

HarnessInit(sessions) ==
  /\ pc = "harness"
  /\ sim \in sessions
  /\ sequence_id = 0
  /\ episode = 0
  /\ iteration = 0
  /\ sessionLive = FALSE
  /\ ncalls = [c \in CallNames |-> 0]
  /\ nevents = 0
  /\ lastEvent = ""
  /\ epi = NoEpisode
  /\ startRec = NoStart
  /\ stepRec = NoStep
  /\ lastAdvance = NoAdvance
  /\ caught = ""
  /\ phase = "Unregistered"
  /\ tally = NoTally

harnessVars == <<sequence_id, episode, iteration, sessionLive, nevents,
                 lastEvent, epi, ncalls, lastAdvance, caught, phase, tally>>

\* sim.episode_start(config), any config, on a new or a used session
CallEpisodeStart ==
  \E config \in StartConfigs, sense \in RotationSenses :
    LET r == episode_start(sim, config, sense, "none") IN
    /\ pc = "harness"
    /\ pc' = "started"
    /\ sim' = r.self
    /\ startRec' = StartRecord(config, sense, r)
    /\ stepRec' = NoStep
    /\ UNCHANGED harnessVars

\* sim.episode_start(config), a config of initial controls
CallEpisodeStartControls ==
  \E config \in ControlConfigs :
    LET r == episode_start(sim, config, 1, "none") IN
    /\ pc \in {"harness", "stepped"}
    /\ pc' = "started"
    /\ sim' = r.self
    /\ startRec' = StartRecord(config, 1, r)
    /\ stepRec' = NoStep
    /\ UNCHANGED harnessVars

\* sim.episode_step(action), the first of the episode
CallEpisodeStep ==
  \E action \in OrchActions, returned \in ReturnedActions, h \in BOOLEAN :
    LET r == episode_step(sim, action, returned, h, "none") IN
    /\ pc = "started"
    /\ pc' = "stepped"
    /\ sim' = r.self
    /\ stepRec' = StepRecord(action, returned, sim.simulator, r)
    /\ startRec' = NoStart
    /\ UNCHANGED harnessVars

\* sim.episode_step(action), get_action() or step() raising
CallEpisodeStepRaises ==
  \E action \in OrchActions, returned \in ReturnedActions,
     fail \in {"get_action", "step"} :
    LET r == episode_step(sim, action, returned, FALSE, fail) IN
    /\ pc = "started"
    /\ pc' = "stepped"
    /\ sim' = r.self
    /\ stepRec' = StepRecord(action, returned, sim.simulator, r)
    /\ startRec' = NoStart
    /\ UNCHANGED harnessVars

NextStart == CallEpisodeStart

SpecStart == HarnessInit({NewSession, UsedSession}) /\ [][NextStart]_vars

NextStep ==
  \/ CallEpisodeStartControls
  \/ CallEpisodeStep
  \/ CallEpisodeStepRaises

SpecStep == HarnessInit({NewSession}) /\ [][NextStep]_vars

(***************************************************************************)
(* Properties                                                              *)
(***************************************************************************)

\* C1: whenever the loop of main() has been left, delete() was called
\* exactly once and create() exactly once, the session is no longer
\* registered, and no run makes two delete() calls.
C1_TeardownOnce ==
  /\ ncalls["delete"] <= 1
  /\ pc = "exited" =>
       /\ ncalls["delete"] = 1
       /\ ncalls["create"] = 1
       /\ ~sessionLive

\* C2: once an Unregister event has been handled, main() makes no further
\* advance() call and handles no further event.
C2_UnregisterEndsLoop ==
  [][lastEvent = "Unregister" =>
       /\ ncalls'["advance"] = ncalls["advance"]
       /\ nevents' = nevents]_vars

\* C3: after an EpisodeStart event followed by N EpisodeStep events (and
\* then an EpisodeFinish event), none of whose calls raised, step() has been
\* called exactly N times and reset() exactly once since the EpisodeStart
\* event arrived.
C3_StepsPerEpisode ==
  epi.phase \in {"open", "closed"} =>
    /\ ncalls["step"] - epi.step0 = epi.n
    /\ ncalls["reset"] - epi.reset0 = 1

C3_Witness ==
  /\ epi.phase = "closed"
  /\ epi.n = 2
  /\ ncalls["step"] = epi.step0 + 2

ControlOf(key) ==
  CASE key = "input_roll" -> "roll"
    [] key = "input_pitch" -> "pitch"
    [] key = "input_height_z" -> "height_z"

Clamped(v) == IF v > 10 THEN 10 ELSE IF v < -10 THEN -10 ELSE v

\* C5: whenever step() is invoked, roll, pitch and height_z are each within
\* [-1.0, 1.0], and a control present in the returned action with value v is
\* applied as 1.0 if v > 1.0, as -1.0 if v < -1.0, and as v otherwise.
C5_Clamping ==
  stepRec.applied # None =>
    LET applied == stepRec.applied[1] IN
    /\ \A f \in {"roll", "pitch", "height_z"} :
         applied[f] >= -10 /\ applied[f] <= 10
    /\ \A k \in DOMAIN stepRec.returned :
         applied[ControlOf(k)] = Clamped(stepRec.returned[k])

C5_Witness ==
  /\ stepRec.kind = "ok"
  /\ stepRec.returned =
       ("input_roll" :> 25) @@ ("input_pitch" :> -30) @@ ("input_height_z" :> 3)
  /\ stepRec.applied = Some([roll |-> 10, pitch |-> -10, height_z |-> 3])

\* C6 as stated: a control whose field is absent from the returned action
\* keeps exactly the value it had before the step, whatever that value is.
C6_AbsentKeepsExactly ==
  stepRec.kind = "ok" =>
    \A k \in InputKeys \ DOMAIN stepRec.returned :
      stepRec.post[ControlOf(k)] = stepRec.pre[ControlOf(k)]

\* C6: a control whose field is absent from the returned action keeps the
\* value it had before the step if that value is within [-1.0, 1.0], and is
\* set to the nearer bound (1.0 or -1.0) if it is outside.
C6_AbsentKeepsClamped ==
  stepRec.kind = "ok" =>
    \A k \in InputKeys \ DOMAIN stepRec.returned :
      stepRec.post[ControlOf(k)] = Clamped(stepRec.pre[ControlOf(k)])

C6_Witness ==
  /\ stepRec.kind = "ok"
  /\ "input_roll" \notin DOMAIN stepRec.returned
  /\ "input_pitch" \notin DOMAIN stepRec.returned
  /\ stepRec.pre.roll = 25
  /\ stepRec.post.roll = 10
  /\ stepRec.pre.pitch = 0
  /\ stepRec.post.pitch = 0

\* the simulator field a config key of lines 103-138 sets
FieldOf(key) ==
  CASE key = "initial_roll" -> "roll"
    [] key = "initial_pitch" -> "pitch"
    [] key = "initial_height_z" -> "height_z"
    [] OTHER -> key

StartConfigMap == IF startRec.config = None THEN EmptyMap ELSE startRec.config[1]

Resolved(key, default) ==
  IF key \in DOMAIN StartConfigMap THEN StartConfigMap[key] ELSE default

\* C7: after episode_start, every field of the simulator holds the value of
\* its config key if the config has the key, and its default (its value
\* after reset()) otherwise; the velocity components hold these values when
\* lines 151-153 have run.  A config of None and an empty config both leave
\* every field at its default.
C7_ConfigResolution ==
  startRec.kind = "ok" =>
    /\ \A k \in ScalarKeys :
         startRec.final[FieldOf(k)] = Resolved(k, SimDefaults[FieldOf(k)])
    /\ startRec.final.ball =
         [x |-> Resolved("initial_x", SimDefaults.ball.x),
          y |-> Resolved("initial_y", SimDefaults.ball.y),
          z |-> Resolved("initial_z", SimDefaults.ball.z)]
    /\ startRec.velSet =
         [x |-> Resolved("initial_vel_x", SimDefaults.ball_vel.x),
          y |-> Resolved("initial_vel_y", SimDefaults.ball_vel.y),
          z |-> Resolved("initial_vel_z", SimDefaults.ball_vel.z)]
    /\ StartConfigMap = EmptyMap => startRec.final = SimDefaults

C7_Witness ==
  /\ startRec.kind = "ok"
  /\ StartConfigMap = ("target_x" :> 30) @@ ("target_y" :> 40)
  /\ startRec.final.target_x = 30
  /\ startRec.final.target_y = 40
  /\ startRec.final.gravity = SimDefaults.gravity

\* initial_speed and initial_direction are both given and not None
SpeedAndDirectionGiven ==
  /\ startRec.kind = "ok"
  /\ Get(StartConfigMap, "initial_speed", None) # None
  /\ Get(StartConfigMap, "initial_direction", None) # None

GivenSpeed == StartConfigMap["initial_speed"][1]
GivenDirection == StartConfigMap["initial_direction"][1]

\* the heading: target minus ball position after ball placement
HeadingX == startRec.final.target_x - startRec.final.ball.x
HeadingY == startRec.final.target_y - startRec.final.ball.y

\* the velocity the explicit components (or their defaults) give
ComponentVelocity ==
  [x |-> Resolved("initial_vel_x", SimDefaults.ball_vel.x),
   y |-> Resolved("initial_vel_y", SimDefaults.ball_vel.y),
   z |-> Resolved("initial_vel_z", SimDefaults.ball_vel.z)]

\* C8: with initial_speed and initial_direction given and the target at the
\* ball position, the velocity after episode_start is the one the explicit
\* components (or their defaults) give, for every speed and direction.
C8_ZeroHeadingNoOp ==
  (SpeedAndDirectionGiven /\ HeadingX = 0 /\ HeadingY = 0) =>
    startRec.final.ball_vel = ComponentVelocity

C8_Witness ==
  /\ SpeedAndDirectionGiven
  /\ HeadingX = 0 /\ HeadingY = 0
  /\ startRec.final.target_x = 100
  /\ GivenSpeed = 50
  /\ GivenDirection = 1
  /\ startRec.final.ball_vel = [x |-> 7, y |-> -7, z |-> 2]

\* the heading scaled to length speed and turned by k quarter turns
ScaledX == (HeadingX * GivenSpeed) \div ISqrt(HeadingX * HeadingX + HeadingY * HeadingY)
ScaledY == (HeadingY * GivenSpeed) \div ISqrt(HeadingX * HeadingX + HeadingY * HeadingY)
TurnedVelocity ==
  LET k == GivenDirection % 4
      q == IF k = 1 THEN startRec.sense ELSE -startRec.sense
  IN  CASE k = 0 -> [x |-> ScaledX, y |-> ScaledY, z |-> 0]
        [] k = 2 -> [x |-> -ScaledX, y |-> -ScaledY, z |-> 0]
        [] OTHER -> [x |-> -q * ScaledY, y |-> q * ScaledX, z |-> 0]

\* the heading has an exact length and scales exactly to length speed
ExactHeading ==
  LET l == ISqrt(HeadingX * HeadingX + HeadingY * HeadingY)
  IN  /\ l * l = HeadingX * HeadingX + HeadingY * HeadingY
      /\ (HeadingX * GivenSpeed) % l = 0
      /\ (HeadingY * GivenSpeed) % l = 0

\* C9 as stated: whenever initial_speed and initial_direction are both
\* given, in a config that also supplies explicit components, the final
\* velocity is the one derived from speed and direction (length speed,
\* z = 0), never the explicit components.
C9_SpeedDirectionAlwaysWins ==
  (/\ SpeedAndDirectionGiven
   /\ VelKeys \cap DOMAIN StartConfigMap # {}
   /\ ((HeadingX = 0 /\ HeadingY = 0) \/ ExactHeading)) =>
    /\ startRec.final.ball_vel.z = 0
    /\ startRec.final.ball_vel.x * startRec.final.ball_vel.x
         + startRec.final.ball_vel.y * startRec.final.ball_vel.y
       = GivenSpeed * GivenSpeed

\* C9: whenever initial_speed and initial_direction are both given and the
\* heading (target minus ball position) is not zero, the final velocity is
\* the one derived from speed and direction, whatever explicit components
\* the config supplies.
C9_SpeedDirectionWins ==
  (SpeedAndDirectionGiven /\ (HeadingX # 0 \/ HeadingY # 0)) =>
    startRec.final.ball_vel = TurnedVelocity

C9_Witness ==
  /\ SpeedAndDirectionGiven
  /\ ComponentVelocity = [x |-> 7, y |-> -7, z |-> 2]
  /\ HeadingX = 30 /\ HeadingY = 40
  /\ GivenSpeed = 50 /\ GivenDirection = 0
  /\ startRec.final.ball_vel = [x |-> 30, y |-> 40, z |-> 0]

\* C10: with a non-zero heading the velocity has z = 0; where the scaling is
\* exact it has length speed and makes the angle direction with the heading
\* (dot product speed * |heading| * cos, cross product of the same size
\* times sin); with speed 5, ball at (0,0) and target at (10,0), direction 0
\* gives (5,0,0) and direction pi gives (-5,0,0).
C10_SpeedDirectionVelocity ==
  (SpeedAndDirectionGiven /\ (HeadingX # 0 \/ HeadingY # 0)) =>
    LET v == startRec.final.ball_vel
        l == ISqrt(HeadingX * HeadingX + HeadingY * HeadingY)
    IN  /\ v.z = 0
        /\ ExactHeading =>
             /\ v.x * v.x + v.y * v.y = GivenSpeed * GivenSpeed
             /\ HeadingX * v.x + HeadingY * v.y
                  = GivenSpeed * l * Cos(GivenDirection)
             /\ Abs(HeadingX * v.y - HeadingY * v.x)
                  = Abs(GivenSpeed * l * Sin(GivenDirection))
        /\ (/\ GivenSpeed = 50
            /\ startRec.final.ball.x = 0 /\ startRec.final.ball.y = 0
            /\ startRec.final.target_x = 100 /\ startRec.final.target_y = 0) =>
             /\ GivenDirection = 0 => v = [x |-> 50, y |-> 0, z |-> 0]
             /\ GivenDirection = 2 => v = [x |-> -50, y |-> 0, z |-> 0]

C10_Witness ==
  /\ SpeedAndDirectionGiven
  /\ GivenSpeed = 50 /\ GivenDirection = 2
  /\ startRec.final.ball.x = 0 /\ startRec.final.ball.y = 0
  /\ startRec.final.target_x = 100 /\ startRec.final.target_y = 0
  /\ ComponentVelocity = [x |-> 7, y |-> -7, z |-> 2]
  /\ startRec.final.ball_vel = [x |-> -50, y |-> 0, z |-> 0]

(***************************************************************************)
(* C11: failures are terminal                                              *)
(***************************************************************************)
\* a call made in this step raised: episode_start() (reset), episode_step()
\* (get_action or step), or advance() itself, which was called and returned
\* no event
CallFailed ==
  \/ startRec'.kind = "raised"
  \/ stepRec'.kind = "raised"
  \/ (ncalls'["advance"] = ncalls["advance"] + 1 /\ nevents' = nevents)

Interrupted == caught' = "KeyboardInterrupt" /\ caught = ""

LoopCalls == {"advance", "step", "C1.get_action", "C2.get_action"}

\* C11: when advance(), get_action(), reset() or step() raises inside the
\* loop, or the loop is interrupted from the keyboard, the same step deletes
\* the remote session and ends the loop; once the loop has ended no further
\* advance(), get_action() or step() call is made.
C11_FailureIsTerminal ==
  /\ [][(CallFailed \/ Interrupted) =>
         /\ pc' = "exited"
         /\ ncalls'["delete"] = ncalls["delete"] + 1
         /\ (CallFailed => caught' = "Exception")]_vars
  /\ [][pc = "exited" =>
         \A c \in LoopCalls : ncalls'[c] = ncalls[c]]_vars

\* get_action() raised in the middle of an episode: no step(), one delete(),
\* loop over
C11_Witness ==
  /\ pc = "exited"
  /\ caught = "Exception"
  /\ stepRec.kind = "raised"
  /\ ncalls["step"] = 0
  /\ ncalls["delete"] = 1
  /\ lastEvent = "EpisodeStep"

\* the loop was interrupted from the keyboard after an event was handled
C11_WitnessInterrupt ==
  /\ pc = "exited"
  /\ caught = "KeyboardInterrupt"
  /\ nevents > 0
  /\ ncalls["delete"] = 1

(***************************************************************************)
(* C12: phase gating                                                       *)
(***************************************************************************)
StepCalls == {"step", "C1.get_action", "C2.get_action"}

\* C12: a decision service or step() is invoked only while the session is
\* EpisodeActive, that is between a handled EpisodeStart and the next
\* EpisodeFinish; an EpisodeStep event outside an episode invokes neither.
C12_PhaseGating ==
  [][(\E c \in StepCalls : ncalls'[c] # ncalls[c]) =>
       phase = "EpisodeActive"]_vars

(***************************************************************************)
(* C13: sequence id echo                                                   *)
(***************************************************************************)
AdvanceCalled == ncalls'["advance"] = ncalls["advance"] + 1

\* C13: the first advance() carries sequence id 1; every later advance()
\* carries the sequence id of the event the preceding advance() returned,
\* whatever the type of that event.
C13_SequenceIdEcho ==
  [][AdvanceCalled =>
       lastAdvance'.sequence_id =
         IF ncalls["advance"] = 0 THEN 1 ELSE lastAdvance.returned]_vars

\* a third advance() that carried the id of the second event
C13_Witness ==
  /\ ncalls["advance"] = 3
  /\ lastAdvance.sequence_id = 5
  /\ lastAdvance.returned = 7
  /\ lastEvent \in {"Idle", "Other", "EpisodeFinish"}

(***************************************************************************)
(* C14: one advance() per iteration, one event per advance()               *)
(***************************************************************************)
Delta(c) == ncalls'[c] - ncalls[c]

\* C14: every iteration of the loop makes exactly one advance() call, which
\* carries the simulator's state() and halted() as they are before the event
\* is handled; each advance() returns at most one event, and an iteration
\* after which the loop goes on handled exactly one event and made at most
\* one reset(), step() or delete() call.
C14_OneAdvancePerEvent ==
  [][(pc = "loop" /\ ~Interrupted) =>
       /\ AdvanceCalled
       /\ lastAdvance'.state = get_state(sim)
       /\ lastAdvance'.halted = halted(sim)
       /\ nevents' \in {nevents, nevents + 1}
       /\ (pc' = "loop" =>
             /\ nevents' = nevents + 1
             /\ \A c \in {"reset", "step", "delete"} : Delta(c) \in {0, 1}
             /\ Delta("reset") + Delta("step") + Delta("delete") <= 1)]_vars

\* an advance() that reported a halted simulator and its state as they were
\* before the step the returned event asked for
C14_Witness ==
  /\ pc = "loop"
  /\ lastEvent = "EpisodeStep"
  /\ stepRec.kind = "ok"
  /\ lastAdvance.halted
  /\ lastAdvance.state # get_state(sim)
  /\ ncalls["advance"] = nevents

(***************************************************************************)
(* C15: the order of operations inside episode_start                       *)
(***************************************************************************)
\* the place the claim gives each operation of episode_start
C15_Rank(op) ==
  CASE op = "reset" -> 1
    [] op = "fields" -> 2
    [] op = "update_plate" -> 3
    [] op = "set_initial_ball" -> 4
    [] op = "velocity" -> 5
    [] op = "speed_direction" -> 6

\* the simulator as it is when lines 156-159 run, should the ball have been
\* placed and the components written before
BeforeSpeedDirection ==
  [startRec.final EXCEPT !.ball_vel = ComponentVelocity]

\* C15: episode_start runs reset, the control and constant field writes,
\* update_plate, set_initial_ball, the explicit velocity components and the
\* speed/direction velocity in this order, each once: set_initial_ball
\* never comes before update_plate, no velocity write comes before
\* set_initial_ball, and the speed/direction velocity is computed from the
\* target and the ball position as they are after set_initial_ball.
C15_StartOrder ==
  /\ \A i, j \in 1..Len(startRec.trace) :
        i < j => C15_Rank(startRec.trace[i]) < C15_Rank(startRec.trace[j])
  /\ startRec.kind = "ok" =>
        /\ Len(startRec.trace) = 6
        /\ startRec.afterReset = SimDefaults
        /\ startRec.velSet = ComponentVelocity
        /\ startRec.final =
             ApplySpeedDirection(BeforeSpeedDirection, StartConfigMap,
                                 startRec.sense)

\* an episode started on a used session that places the ball away from its
\* default and aims it at the target by speed and direction
C15_Witness ==
  /\ SpeedAndDirectionGiven
  /\ startRec.trace = EpisodeStartOrder
  /\ "initial_x" \in DOMAIN StartConfigMap
  /\ "initial_vel_x" \in DOMAIN StartConfigMap
  /\ startRec.final.ball # SimDefaults.ball
  /\ startRec.final.ball_vel # startRec.velSet
  /\ startRec.final.ball.x # SimDefaults.ball.x

(***************************************************************************)
(* C16: no reset on halted                                                 *)
(***************************************************************************)
\* C16: reset() is called only in the handling of an EpisodeStart event,
\* once, and never because halted() is true; a halted simulator is reported
\* as halted in the next advance(), and the event that advance() returns is
\* handled like any other.
C16_NoAutoReset ==
  [][/\ Delta("reset") # 0 =>
          /\ Delta("reset") = 1
          /\ lastEvent' = "EpisodeStart"
          /\ nevents' = nevents + 1
     /\ (AdvanceCalled /\ halted(sim)) =>
          /\ lastAdvance'.halted
          /\ lastEvent' # "EpisodeStart" => Delta("reset") = 0]_vars

\* steps went on being executed on a halted simulator that was never reset
C16_Witness ==
  /\ lastAdvance.halted
  /\ halted(sim)
  /\ lastEvent = "EpisodeStep"
  /\ stepRec.kind = "ok"
  /\ iteration >= 2
  /\ ncalls["reset"] = 0

(***************************************************************************)
(* C17: Idle and unrecognized events                                       *)
(***************************************************************************)
HandlerCalls == CallNames \ {"advance"}

\* C17: handling an Idle event or an event of an unrecognized type changes
\* no simulator field, neither counter and not the phase, calls none of
\* reset(), step(), get_action() and delete(), and leaves the loop running;
\* only the sequence id is updated, to that of the event.
C17_IdleAndOtherChangeNothing ==
  [][(nevents' = nevents + 1 /\ lastEvent' \in {"Idle", "Other"}) =>
       /\ sim' = sim
       /\ episode' = episode
       /\ iteration' = iteration
       /\ phase' = phase
       /\ \A c \in HandlerCalls : Delta(c) = 0
       /\ pc' = pc
       /\ sessionLive' = sessionLive
       /\ caught' = caught
       /\ sequence_id' = lastAdvance'.returned]_vars

\* an unrecognized event arrived in the middle of an episode
C17_Witness ==
  /\ lastEvent = "Other"
  /\ pc = "loop"
  /\ phase = "EpisodeActive"
  /\ episode > 0
  /\ iteration > 0
  /\ sequence_id = lastAdvance.returned

\* an Idle event arrived in the middle of an episode
C17_WitnessIdle ==
  /\ lastEvent = "Idle"
  /\ pc = "loop"
  /\ phase = "EpisodeActive"
  /\ iteration > 0
  /\ sim.simulator # SimDefaults

(***************************************************************************)
(* C18: a decision service that raises                                     *)
(***************************************************************************)
\* the episode_step call of this step ended in get_action() raising: it
\* raised before any control was applied
GetActionRaised == stepRec'.kind = "raised" /\ stepRec'.applied = None

\* C18: when the selected decision service's get_action() raises, the
\* simulator is left as it was, roll, pitch and height_z included (not even
\* clamped), step() is not called, and the one get_action() call made is
\* that of the selected service: the other service is not consulted.
C18_GetActionFailure ==
  [][GetActionRaised =>
       /\ sim' = sim
       /\ stepRec'.post = Controls(sim.simulator)
       /\ stepRec'.calls =
            <<IF "concept_index" \in DOMAIN stepRec'.action
                 /\ stepRec'.action["concept_index"] = 1
              THEN "C1.get_action" ELSE "C2.get_action">>]_vars

\* the second service raised while roll was out of range: roll stays as it is
C18_Witness ==
  /\ stepRec.kind = "raised"
  /\ stepRec.applied = None
  /\ stepRec.calls = <<"C2.get_action">>
  /\ stepRec.pre.roll > MAX_CONTROL
  /\ sim.simulator.roll = stepRec.pre.roll
  /\ "input_roll" \in DOMAIN stepRec.returned

(***************************************************************************)
(* C19: the iteration and episode counters                                 *)
(***************************************************************************)
EventHandled(type) == nevents' = nevents + 1 /\ lastEvent' = type

\* C19: iteration is the number of EpisodeStep events received since the
\* last EpisodeFinish (since registration if there was none): it is 0 right
\* after an EpisodeFinish, an EpisodeStart leaves it as it is, and an
\* EpisodeStep adds one even when the step then fails.  episode is the
\* number of EpisodeStart events whose episode_start completed; it never
\* decreases and a failed episode_start does not count.
C19_Counters ==
  /\ [](/\ iteration = tally.steps
        /\ episode = tally.starts
        /\ (lastEvent = "EpisodeFinish" => iteration = 0))
  /\ [][/\ episode' >= episode
        /\ EventHandled("EpisodeStart") =>
             /\ iteration' = iteration
             /\ episode' = IF startRec'.kind = "ok" THEN episode + 1
                           ELSE episode
        /\ EventHandled("EpisodeStep") => iteration' = iteration + 1
        /\ EventHandled("EpisodeFinish") => episode' = episode]_vars

\* a second episode was started after steps with no EpisodeFinish between
\* them: the iteration count runs on
C19_Witness ==
  /\ lastEvent = "EpisodeStart"
  /\ startRec.kind = "ok"
  /\ episode = 2
  /\ iteration = 2

\* a step that failed was counted
C19_WitnessFailedStep ==
  /\ lastEvent = "EpisodeStep"
  /\ stepRec.kind = "raised"
  /\ iteration = 2
  /\ ncalls["step"] = 1

(***************************************************************************)
(* C20: the orchestrator's action acts through the selector only           *)
(***************************************************************************)
ConceptIsOne(a) == "concept_index" \in DOMAIN a /\ a["concept_index"] = 1

\* the orchestrator's action with everything but concept_index taken out
SelectorOnly(a) == [k \in DOMAIN a \cap {"concept_index"} |-> a[k]]

\* the collaborator call that raised in the episode_step of this step
FailOfStep ==
  CASE stepRec'.kind = "ok" -> "none"
    [] stepRec'.applied = None -> "get_action"
    [] OTHER -> "step"

\* episode_step for another orchestrator action, from the simulator state
\* this step started in and with the services and the simulator answering
\* as they did in this step: same session afterwards, same calls, same
\* controls applied
SameOutcome(a2) ==
  LET r2 == episode_step(sim, a2, stepRec'.returned,
                         sim'.simulator.is_halted, FailOfStep)
  IN  /\ r2.self = sim'
      /\ r2.calls = stepRec'.calls
      /\ r2.applied = stepRec'.applied

\* C20: an episode_step depends on the orchestrator's action only through
\* whether its concept_index equals 1: any other action with the same
\* outcome of that test, run from the same simulator state against the same
\* service responses, calls the same service and applies the same controls;
\* input_roll, input_pitch, input_height_z and command in the
\* orchestrator's action are never applied.
C20_OnlySelectorMatters ==
  [][(pc = "started" /\ stepRec'.kind # "none") =>
       /\ \A a2 \in OrchActions :
            ConceptIsOne(a2) = ConceptIsOne(stepRec'.action) => SameOutcome(a2)
       /\ SameOutcome(SelectorOnly(stepRec'.action))]_vars

\* the orchestrator sent controls of its own with concept_index 2; the
\* service left pitch out, and pitch stayed as it was
C20_Witness ==
  /\ pc = "stepped"
  /\ stepRec.kind = "ok"
  /\ ~ConceptIsOne(stepRec.action)
  /\ "input_pitch" \in DOMAIN stepRec.action
  /\ "input_pitch" \notin DOMAIN stepRec.returned
  /\ stepRec.post.pitch = stepRec.pre.pitch
  /\ stepRec.post.pitch # clamp(stepRec.action["input_pitch"],
                                MIN_CONTROL, MAX_CONTROL)
  /\ stepRec.calls = <<"C2.get_action", "step">>

=============================================================================
